---- MODULE Spec2Model ----
(***************************************************************************)
(* A model of the dendrogram tree builders of parse_dendrogram.py and      *)
(* get_parents.py: the recursive _build_tree, which turns a nested         *)
(* document of records into a flat dict of CellNode objects, and the       *)
(* closure pass of parse_dendrogram.build_tree, which fills every node's   *)
(* list of ultimate children and then asserts that no list holds a name    *)
(* twice.                                                                  *)
(*                                                                         *)
(* A document is a finite tree of records.  Records are numbered 1..n in   *)
(* pre-order, record 1 being the root; parent[r] is the record whose       *)
(* 'children' list holds r (0 for the root), keys[r] is the set of         *)
(* attribute fields the record carries and name[r] is the                  *)
(* cell_set_accession found in element zero of its attributes field.       *)
(* Accessions are opaque to the code (they are only compared, hashed and   *)
(* copied), so they are modelled as the numbers 1..n: a record is named    *)
(* either by its own number or by the name of an earlier record.  Every    *)
(* record carries a 'children' list (possibly empty).                      *)
(***************************************************************************)
EXTENDS Integers, Sequences, FiniteSets, TLC

\* Largest number of records in a document.
MaxRecords == 4

VARIABLES
    module,            \* which file's build_tree is being run
    dendrogram_in,     \* the input document
    dendrogram_out,    \* the dict under construction: keys in insertion order, and the nodes
    stack,             \* the _build_tree invocations that are inside their for loop
    ult_child_lookup,  \* build_tree's local dict of sets
    todo,              \* the (node, ancestor index) iterations of the closure loops still to run
    pc,                \* where build_tree is
    err                \* the exception that ended build_tree, or "none"

vars == <<module, dendrogram_in, dendrogram_out, stack, ult_child_lookup, todo, pc, err>>

-----------------------------------------------------------------------------
(* Python values *)

\* None, and a value that is not None.
NoneVal == [none |-> TRUE]
Some(x) == [none |-> FALSE, val |-> x]

Last(s) == s[Len(s)]
ToSet(s) == {s[i] : i \in 1..Len(s)}
Count(x, s) == Cardinality({i \in 1..Len(s) : s[i] = x})

RECURSIVE SortedSeq(_)
SortedSeq(S) ==
    IF S = {} THEN <<>>
    ELSE LET m == CHOOSE x \in S : \A y \in S : x <= y
         IN <<m>> \o SortedSeq(S \ {m})

-----------------------------------------------------------------------------
(* The input document *)

LEAF == {"leaf_attributes"}
NODE == {"node_attributes"}
NEITHER == {}

RECURSIVE AncOrSelf(_, _)
AncOrSelf(par, r) == IF r = 0 THEN {} ELSE {r} \cup AncOrSelf(par, par[r])

\* Records are numbered in pre-order: a record's parent is the record before it
\* or one of that record's ancestors.
IsPreorder(n, par) ==
    /\ par[1] = 0
    /\ \A r \in 2..n : par[r] \in AncOrSelf(par, r - 1)

\* A record is named by its own number or by the name of an earlier record.
IsNaming(n, nm) ==
    \A r \in 1..n : nm[r] = r \/ (nm[r] < r /\ nm[nm[r]] = nm[r])

Shapes(n) == {par \in [1..n -> 0..(n-1)] : IsPreorder(n, par)}
Namings(n) == {nm \in [1..n -> 1..n] : IsNaming(n, nm)}

\* The document of n records with the given shape, fields and names.
Document(n, par, ks, nm) == [n |-> n, parent |-> par, keys |-> ks, name |-> nm]

\* The dict a record is in the loaded JSON.
Record(doc, r) == [keys |-> doc.keys[r], name |-> doc.name[r], rec |-> r]

\* node_in['children']
Children(doc, r) == SortedSeq({c \in 1..doc.n : doc.parent[c] = r})


-----------------------------------------------------------------------------
(* CellNode *)

\* CellNode.__init__: the ancestors are copied, and the set of them is None
\* when the list is None.
CellNode(name, ancestors, level) ==
    [ _name |-> name,
      _ancestors |-> ancestors,
      _ancestor_set |-> IF ancestors.none THEN NoneVal ELSE Some(ToSet(ancestors.val)),
      _level |-> level,
      _list_of_children |-> <<>>,
      _ultimate_children |-> NoneVal ]

\* CellNode.descended_from: "name in self._ancestor_set"; the operator "in"
\* raises TypeError when its right operand is None.
descended_from(node, name) ==
    IF node._ancestor_set.none THEN "TypeError"
    ELSE IF name \in node._ancestor_set.val THEN "True" ELSE "False"

\* CellNode.add_child
add_child(node, child) ==
    [node EXCEPT !._list_of_children = Append(@, child)]

\* CellNode._create_ultimate_children
create_ultimate_children(node) ==
    [node EXCEPT !._ultimate_children = Some(node._list_of_children)]

\* CellNode.add_ultimate_child
add_ultimate_child(node, name) ==
    [node EXCEPT !._ultimate_children = Some(Append(@.val, name))]

-----------------------------------------------------------------------------
(* The dict dendrogram_out: its keys in insertion order, and its values *)

EmptyDict == [keys |-> <<>>, node |-> [k \in {} |-> NoneVal]]

Keys(d) == ToSet(d.keys)

\* A variant that never stores the node.
setitem_dropped(d, name, node) == d

\* d[name] = node: a new key goes to the end of the order, an existing key
\* keeps its place and has its value replaced.
setitem(d, name, node) ==
    [ keys |-> IF name \in Keys(d) THEN d.keys ELSE Append(d.keys, name),
      node |-> [k \in Keys(d) \cup {name} |-> IF k = name THEN node ELSE d.node[k]] ]

-----------------------------------------------------------------------------
(* _build_tree *)

\* Lines 114-119: the attributes field the name is read from.
attr_key(node_in) ==
    IF "leaf_attributes" \in node_in.keys THEN "leaf_attributes" ELSE "node_attributes"

is_leaf(node_in) == "leaf_attributes" \in node_in.keys

\* A variant that reads a missing field as if it were there.
has_key_any(node_in, key) == TRUE

\* Whether node_in[attr_key] finds the field (it raises KeyError otherwise).
has_key(node_in, key) == key \in node_in.keys

\* A variant that hands the children the node's own level.
next_level_same(level) == level

\* level += 1
next_level(level) == level + 1

\* A variant that registers the node under the first ancestor.
parent_name_first(ancestors_in) == ancestors_in[1]

\* The node the new name is registered under as a direct child: ancestors_in[-1].
parent_name(ancestors_in) == Last(ancestors_in)

\* A variant that hands the children the node's name alone.
child_ancestors_own(ancestors_in, name) == <<name>>

\* Lines 126-131: the ancestor list handed to the children.
child_ancestors(ancestors_in, name) ==
    IF ancestors_in.none THEN <<name>> ELSE Append(ancestors_in.val, name)

\* Lines 114-132 of one invocation: what it raises, the dict it leaves, and
\* the ancestors and level it passes on to its children.
Invocation(doc, d, r, ancestors_in, level) ==
    LET node_in == Record(doc, r)
        key == attr_key(node_in)
        name == node_in.name
        d1 == setitem(d, name, CellNode(name, ancestors_in, level))
        out(e, dd) == [ err |-> e, d |-> dd,
                        ancestors |-> child_ancestors(ancestors_in, name),
                        level |-> next_level(level) ]
    IN  IF ~has_key(node_in, key) THEN out("KeyError", d)
        ELSE IF ancestors_in.none THEN out("none", d1)
        ELSE IF parent_name(ancestors_in.val) \notin Keys(d1)
             THEN out("KeyError: ancestor", d1)
        ELSE out("none",
                 [d1 EXCEPT !.node[parent_name(ancestors_in.val)] = add_child(@, name)])

\* An invocation inside its for loop: the record, the ancestors and level it
\* passes to each child, and the index of the next child.
Frame(r, ancestors, level) == [node_in |-> r, ancestors |-> ancestors, level |-> level, i |-> 1]

\* The invocations whose for loop is exhausted return.
RECURSIVE Unwind(_, _)
Unwind(doc, stk) ==
    IF stk = <<>> THEN stk
    ELSE IF Last(stk).i > Len(Children(doc, Last(stk).node_in))
         THEN Unwind(doc, SubSeq(stk, 1, Len(stk) - 1))
         ELSE stk

\* The stack after an invocation on record r that raised nothing: the for
\* loop of lines 134-137 is entered unless the record is a leaf.
Enter(doc, stk, r, res) ==
    Unwind(doc, IF is_leaf(Record(doc, r)) THEN stk
                ELSE Append(stk, Frame(r, res.ancestors, res.level)))

\* One invocation of _build_tree on record r, from the calling stack stk.
Call(stk, r, ancestors_in, level) ==
    LET res == Invocation(dendrogram_in, dendrogram_out, r, ancestors_in, level)
        stk1 == Enter(dendrogram_in, stk, r, res)
    IN  /\ dendrogram_out' = res.d
        /\ IF res.err # "none"
           THEN /\ pc' = "error"
                /\ err' = res.err
                /\ stack' = <<>>
           ELSE /\ err' = err
                /\ stack' = stk1
                /\ pc' = IF stk1 # <<>> THEN "build"
                         ELSE IF module = "parse_dendrogram" THEN "built"
                         ELSE "returned"
        /\ UNCHANGED <<module, dendrogram_in, ult_child_lookup, todo>>

\* parse_dendrogram.build_tree, lines 154-155: the root invocation.
build_tree ==
    /\ pc = "start"
    /\ module = "parse_dendrogram"
    /\ Call(<<>>, 1, NoneVal, 0)

\* The names get_parents.build_tree can read: its parameters, and the
\* module's globals bound when the __main__ block calls it.
gp_locals == {"dendrogram_in", "dendrogram_out"}
gp_globals == {"os", "json", "copy", "np", "Cell_Node", "_build_tree", "build_tree",
               "fname", "in_file", "dendrogram", "tree"}

\* get_parents.build_tree, lines 104-105: the root invocation is handed the
\* name node_in, which raises NameError where no such name is bound.
gp_build_tree ==
    /\ pc = "start"
    /\ module = "get_parents"
    /\ IF "node_in" \in gp_locals \cup gp_globals
       THEN Call(<<>>, 1, NoneVal, 0)
       ELSE /\ pc' = "error"
            /\ err' = "NameError"
            /\ UNCHANGED <<module, dendrogram_in, dendrogram_out, stack,
                           ult_child_lookup, todo>>

\* Lines 135-137: the innermost for loop invokes _build_tree on its next child.
_build_tree ==
    /\ pc = "build"
    /\ LET top == Last(stack)
           child == Children(dendrogram_in, top.node_in)[top.i]
           stk == [stack EXCEPT ![Len(stack)].i = @ + 1]
       IN Call(stk, child, Some(top.ancestors), top.level)


-----------------------------------------------------------------------------
(* The closure pass of parse_dendrogram.build_tree *)

\* CellNode.ancestors of the node under a key, as the list the loops walk
\* (None is skipped by line 168: no iterations).
Chain(d, k) == IF d.node[k]._ancestors.none THEN <<>> ELSE d.node[k]._ancestors.val

\* CellNode.ultimate_children of the node under a key.
Ult(d, k) == d.node[k]._ultimate_children.val

\* The iterations of the loops of lines 166-172: a key and an index into its
\* ancestor list.
Iterations(d) == {<<k, j>> : k \in Keys(d), j \in 1..MaxRecords} \cap
                 UNION {{<<k, j>> : j \in 1..Len(Chain(d, k))} : k \in Keys(d)}

\* Lines 160-163: every node's _ultimate_children becomes a copy of its
\* direct children, and ult_child_lookup the set of them.
closure_init ==
    /\ pc = "built"
    /\ LET d == [dendrogram_out EXCEPT
                   !.node = [k \in Keys(dendrogram_out) |->
                                create_ultimate_children(dendrogram_out.node[k])]]
       IN /\ dendrogram_out' = d
          /\ ult_child_lookup' = [k \in Keys(d) |-> ToSet(Ult(d, k))]
          /\ todo' = Iterations(d)
          /\ pc' = IF Iterations(d) = {} THEN "check" ELSE "closure"
    /\ UNCHANGED <<module, dendrogram_in, stack, err>>

\* A variant that never finds the name listed.
already_listed_never(lookup, a_name, node_name) == FALSE

\* A variant with the test inverted.
already_listed_inverted(lookup, a_name, node_name) == node_name \notin lookup[a_name]

\* Line 171: "node_name not in ult_child_lookup[a_name]", negated.
already_listed(lookup, a_name, node_name) == node_name \in lookup[a_name]

\* Lines 171-172 for one node and one of its ancestors.
project(d, lookup, node_name, a_name) ==
    IF already_listed(lookup, a_name, node_name) THEN d
    ELSE [d EXCEPT !.node[a_name] = add_ultimate_child(@, node_name)]

\* One iteration of the inner loop, lines 170-172.
Iterate(it) ==
    LET node_name == it[1]
        a_name == Chain(dendrogram_out, node_name)[it[2]]
    IN  /\ todo' = todo \ {it}
        /\ IF a_name \notin DOMAIN ult_child_lookup
           THEN /\ pc' = "error"
                /\ err' = "KeyError: ancestor"
                /\ dendrogram_out' = dendrogram_out
           ELSE /\ dendrogram_out' = project(dendrogram_out, ult_child_lookup, node_name, a_name)
                /\ pc' = IF todo \ {it} = {} THEN "check" ELSE "closure"
                /\ err' = err
        /\ UNCHANGED <<module, dendrogram_in, stack, ult_child_lookup>>

\* The place of a key in the dict's iteration order.
KeyIndex(d, k) == CHOOSE i \in 1..Len(d.keys) : d.keys[i] = k

\* The iteration the loops of lines 166 and 170 run next: keys in the dict's
\* order, and under each key its ancestors from the first to the last.
NextIteration(d, its) ==
    CHOOSE it \in its : \A o \in its :
        \/ KeyIndex(d, it[1]) < KeyIndex(d, o[1])
        \/ (it[1] = o[1] /\ it[2] <= o[2])

closure_step ==
    /\ pc = "closure"
    /\ Iterate(NextIteration(dendrogram_out, todo))

\* The same pass with the loops run in an arbitrary order.
closure_step_any ==
    /\ pc = "closure"
    /\ \E it \in todo : Iterate(it)

\* Lines 174-176: len(c) == len(np.unique(c)) for every node.
final_check ==
    /\ pc = "check"
    /\ IF \A k \in Keys(dendrogram_out) :
             Len(Ult(dendrogram_out, k)) = Cardinality(ToSet(Ult(dendrogram_out, k)))
       THEN pc' = "returned" /\ err' = err
       ELSE pc' = "error" /\ err' = "AssertionError"
    /\ UNCHANGED <<module, dendrogram_in, dendrogram_out, stack, ult_child_lookup, todo>>

-----------------------------------------------------------------------------
(* Specifications *)

Init ==
    /\ module \in {"parse_dendrogram", "get_parents"}
    /\ \E n \in 1..MaxRecords :
         \E par \in Shapes(n), nm \in Namings(n), ks \in [1..n -> {LEAF, NODE, NEITHER}] :
            dendrogram_in = Document(n, par, ks, nm)
    /\ dendrogram_out = EmptyDict
    /\ stack = <<>>
    /\ ult_child_lookup = [k \in {} |-> {}]
    /\ todo = {}
    /\ pc = "start"
    /\ err = "none"

Next ==
    \/ build_tree
    \/ gp_build_tree
    \/ _build_tree
    \/ closure_init
    \/ closure_step
    \/ final_check

Spec == Init /\ [][Next]_vars

NextAnyOrder ==
    \/ build_tree
    \/ gp_build_tree
    \/ _build_tree
    \/ closure_init
    \/ closure_step_any
    \/ final_check

SpecAnyOrder == Init /\ [][NextAnyOrder]_vars


-----------------------------------------------------------------------------
(* Vocabulary of the properties *)

doc == dendrogram_in
out == dendrogram_out

\* No two records of the document carry the same name.
NameUnique == \A r \in 1..doc.n : doc.name[r] = r

\* The number of 'children' lists a record is nested in.
Depth(r) == Cardinality(AncOrSelf(doc.parent, r)) - 1

\* The records above a record.
Above(r) == AncOrSelf(doc.parent, doc.parent[r])

\* The traversal comes to a record when every record above it is an internal
\* record (a leaf is not descended into, a record without attributes raises).
Reached(r) == \A a \in Above(r) : doc.keys[a] = NODE

\* A well-formed document: unique names, every record a leaf or an internal
\* record, the root internal, and nothing nested in a leaf.
WellFormed ==
    /\ NameUnique
    /\ doc.keys[1] = NODE
    /\ \A r \in 1..doc.n : doc.keys[r] # NEITHER /\ Reached(r)

\* first_parent of the __main__ block: the root record's name.
RootName == doc.name[1]

DirectChildren(k) == out.node[k]._list_of_children

\* The keys reachable from k through at most fuel direct-child links.
RECURSIVE ReachFrom(_, _)
ReachFrom(k, fuel) ==
    IF fuel = 0 \/ k \notin Keys(out) THEN {}
    ELSE ToSet(DirectChildren(k)) \cup
         UNION {ReachFrom(c, fuel - 1) : c \in ToSet(DirectChildren(k))}

\* The keys whose ancestor chain holds k.
Below(k) == {m \in Keys(out) : k \in ToSet(Chain(out, m))}

\* The closure pass has created the lists of ultimate children.
UltCreated ==
    /\ module = "parse_dendrogram"
    /\ pc \in {"closure", "check", "returned"} \/ err = "AssertionError"

\* The closure pass is over.
ClosureDone ==
    /\ module = "parse_dendrogram"
    /\ pc \in {"check", "returned"} \/ err = "AssertionError"

-----------------------------------------------------------------------------
(* C1 *)

\* C1 (as claimed): when two records the traversal resolves a name for carry
\* the same cell_set_accession, build_tree never returns normally.
C1Claim ==
    (\E r1, r2 \in 1..doc.n :
        /\ r1 # r2
        /\ doc.name[r1] = doc.name[r2]
        /\ Reached(r1) /\ Reached(r2)
        /\ doc.keys[r1] # NEITHER /\ doc.keys[r2] # NEITHER)
    => pc # "returned"

-----------------------------------------------------------------------------
(* C2 *)

\* C2 (as claimed): after build_tree returns on a name-unique document,
\* N.descended_from(A) answers True when A is in N's ancestor chain and False
\* otherwise, for every node N (the root included) and every key A.
C2Claim ==
    (pc = "returned" /\ NameUnique) =>
        \A k \in Keys(out), a \in Keys(out) :
            descended_from(out.node[k], a) =
                IF a \in ToSet(Chain(out, k)) THEN "True" ELSE "False"

-----------------------------------------------------------------------------
(* C3 *)

\* C3: after build_tree returns on a name-unique document, every node's
\* ultimate_children are, as a set, exactly the nodes reachable from it by
\* one or more direct-child links, which are the nodes whose ancestor chain
\* holds it, and never the node itself; every node but the root has the root
\* among its ancestors, and the root's list has (number of nodes - 1) entries.
C3Formula ==
    (pc = "returned" /\ NameUnique) =>
        /\ \A k \in Keys(out) :
              /\ ToSet(Ult(out, k)) = ReachFrom(k, Len(out.keys))
              /\ ToSet(Ult(out, k)) = Below(k)
              /\ ToSet(Ult(out, k)) = {doc.name[r] : r \in {c \in 1..doc.n : Reached(c) /\ k \in Above(c)}}
              /\ k \notin ToSet(Ult(out, k))
              /\ k # RootName => RootName \in ToSet(Chain(out, k))
        /\ Len(Ult(out, RootName)) = Len(out.keys) - 1

\* A chain of four records has been built and closed: the root lists all three.
C3Witness ==
    /\ pc = "returned"
    /\ NameUnique
    /\ Len(Ult(out, RootName)) = 3
    /\ \E k \in Keys(out) : out.node[k]._level = 3

-----------------------------------------------------------------------------
(* C4 *)

\* C4: on a name-unique document, once the closure pass is over no node's
\* ultimate_children holds a name twice and each holds all the node's direct
\* children, and the final assertion never fails.
C4Formula ==
    NameUnique =>
        /\ err # "AssertionError"
        /\ ClosureDone =>
              \A k \in Keys(out) :
                 /\ \A x \in Keys(out) : Count(x, Ult(out, k)) <= 1
                 /\ Len(Ult(out, k)) = Cardinality(ToSet(Ult(out, k)))
                 /\ ToSet(DirectChildren(k)) \subseteq ToSet(Ult(out, k))

\* The pass is over and has added a name to a node that has direct children.
C4Witness ==
    /\ NameUnique
    /\ pc = "check"
    /\ \E k \in Keys(out) :
          /\ DirectChildren(k) # <<>>
          /\ Len(Ult(out, k)) > Len(DirectChildren(k))

-----------------------------------------------------------------------------
(* C5 *)

\* C5: every node of the table has as its level the number of names in its
\* ancestor chain; on a name-unique document the root has level 0 and no
\* ancestors, and a node nested in k 'children' lists has level k.
C5Formula ==
    \A k \in Keys(out) :
       /\ out.node[k]._level = Len(Chain(out, k))
       /\ NameUnique =>
             /\ out.node[k]._level = Depth(k)
             /\ k = RootName => out.node[k]._ancestors.none /\ out.node[k]._level = 0
             /\ k # RootName => ~out.node[k]._ancestors.none

\* A node three levels down is in the table.
C5Witness ==
    /\ NameUnique
    /\ \E k \in Keys(out) : out.node[k]._level = 3 /\ Depth(k) = 3

-----------------------------------------------------------------------------
(* C6 *)

\* C6: on a name-unique document, every name in a node's children is a key
\* of the table whose ancestor chain is that node's chain followed by that
\* node's name, so its last ancestor is that node.
C6Formula ==
    NameUnique =>
        \A p \in Keys(out) : \A i \in 1..Len(DirectChildren(p)) :
            LET c == DirectChildren(p)[i]
            IN  /\ c \in Keys(out)
                /\ ~out.node[c]._ancestors.none
                /\ Last(Chain(out, c)) = p
                /\ Chain(out, c) = Chain(out, p) \o <<p>>

\* A node other than the root has two direct children.
C6Witness ==
    /\ NameUnique
    /\ \E p \in Keys(out) : p # RootName /\ Len(DirectChildren(p)) = 2

-----------------------------------------------------------------------------
(* C7 *)

\* C7: when the traversal comes to a record with neither attributes field,
\* build_tree never gets past the traversal and never returns normally: it
\* ends in KeyError, and no node is created under that record's name.
C7Formula ==
    /\ (\E r \in 1..doc.n : Reached(r) /\ doc.keys[r] = NEITHER) =>
          /\ pc \in {"start", "build", "error"}
          /\ (pc = "error" /\ module = "parse_dendrogram") => err = "KeyError"
    /\ \A r \in 1..doc.n :
          (doc.keys[r] = NEITHER /\ \A o \in 1..doc.n : o # r => doc.name[o] # doc.name[r])
          => doc.name[r] \notin Keys(out)

\* The build has ended in KeyError at a record two levels down, after the
\* records before it were given nodes.
C7Witness ==
    /\ module = "parse_dendrogram"
    /\ pc = "error" /\ err = "KeyError"
    /\ Len(out.keys) >= 2
    /\ \E r \in 1..doc.n : Reached(r) /\ doc.keys[r] = NEITHER /\ Depth(r) = 2

-----------------------------------------------------------------------------
(* C8 *)

\* C8 (as claimed): get_parents.build_tree on a well-formed document does
\* not end in an error.
C8Claim ==
    (module = "get_parents" /\ WellFormed) => pc # "error"

-----------------------------------------------------------------------------
(* C9 *)

\* How often the pass has added n to the ultimate children of a.
Inserted(n, a) == Count(n, Ult(out, a)) - Count(n, DirectChildren(a))

\* How many of the iterations for node n and ancestor a have run.
Processed(n, a) ==
    Cardinality({j \in 1..Len(Chain(out, n)) :
                    Chain(out, n)[j] = a /\ <<n, j>> \notin todo})

\* C9: in whatever order the closure pass runs its iterations, it ends with
\* every node's ultimate_children being, as a set, its direct children and
\* the nodes whose ancestor chain holds it, a set fixed by the table the
\* traversal built; and no iteration adds its node more than once (on a
\* name-unique document no list ever holds a name twice).
C9Formula ==
    /\ ClosureDone =>
          \A a \in Keys(out) :
             ToSet(Ult(out, a)) = ToSet(DirectChildren(a)) \cup Below(a)
    /\ UltCreated =>
          \A n \in Keys(out), a \in Keys(out) :
             /\ Inserted(n, a) <= Processed(n, a)
             /\ NameUnique => Count(n, Ult(out, a)) <= 1

\* The pass is over, having added two names to a node in the order opposite
\* to the dict's.
C9Witness ==
    /\ NameUnique
    /\ pc = "check"
    /\ \E a \in Keys(out) : \E i, j \in 1..Len(Ult(out, a)) :
          /\ Len(DirectChildren(a)) < i
          /\ i < j
          /\ KeyIndex(out, Ult(out, a)[i]) > KeyIndex(out, Ult(out, a)[j])

-----------------------------------------------------------------------------
(* C10 *)

\* C10: throughout the traversal, the parent every pending invocation will
\* register its node under is already a key of the table, so the lookup of
\* the last ancestor never fails; and on a name-unique document every node
\* entered the table after all its ancestors (after its parent record).
C10Formula ==
    /\ err # "KeyError: ancestor"
    /\ \A i \in 1..Len(stack) : Last(stack[i].ancestors) \in Keys(out)
    /\ NameUnique =>
          \A i \in 1..Len(out.keys) :
             LET k == out.keys[i]
             IN  /\ \A a \in ToSet(Chain(out, k)) :
                       a \in Keys(out) /\ KeyIndex(out, a) < i
                 /\ k # RootName =>
                       /\ doc.parent[k] \in Keys(out)
                       /\ KeyIndex(out, doc.parent[k]) < i

\* An invocation three levels down is pending, its parent already registered.
C10Witness ==
    /\ NameUnique
    /\ pc = "build"
    /\ Len(stack) = 3
    /\ Len(out.keys) = 3

=============================================================================
